---------------------------- MODULE Spec2Model ----------------------------
(***************************************************************************)
(* FactoryOS seed runner (scripts/seed-factory-data.py) as a state machine. *)
(*                                                                         *)
(* The script is one sequential run of HTTP requests.  Every request is    *)
(* one step of the machine; the remote service is the environment, which   *)
(* answers each request with one of a bounded set of outcomes.             *)
(*                                                                         *)
(* Values follow the script's types.  A JSON value is a tagged record.     *)
(* Strings the script searches, lowers, slices or measures are sequences   *)
(* of one-character strings; strings it only compares are atoms.           *)
(***************************************************************************)
EXTENDS Integers, Sequences, FiniteSets, Bags, TLC

(***************************** bounds ************************************)
\* How many events that leave a lasting trace one run may meet: an answer
\* that fails an item, a machine missing from the list or listed twice, a plan
\* without identifier, a midnight passing while the dates are computed.
MaxFaults == 1

(***************************** JSON values *******************************)
JNull == [t |-> "null"]
JBool(b) == [t |-> "bool", v |-> b]
JInt(n) == [t |-> "int", v |-> n]
JStr(s) == [t |-> "str", v |-> s]
JList(s) == [t |-> "list", v |-> s]
JDict(f) == [t |-> "dict", v |-> f]
EmptyDict == JDict(<<>>)
\* A name the script has not bound yet.
Unset == [t |-> "unset"]

\* Python truth value of a JSON value (if x:, not x, a or b).
Truthy(j) ==
    CASE j.t = "null" -> FALSE
      [] j.t = "unset" -> FALSE
      [] j.t = "bool" -> j.v
      [] j.t = "int" -> j.v # 0
      [] j.t = "str" -> Len(j.v) > 0
      [] j.t = "list" -> Len(j.v) > 0
      [] j.t = "dict" -> DOMAIN j.v # {}

IsDict(j) == j.t = "dict"

\* dict.get(key, default); dict.get(key) is Get(d, key, JNull).
Get(d, k, dflt) == IF k \in DOMAIN d.v THEN d.v[k] ELSE dflt

(***************************** strings ***********************************)
Upper == << "A", "B", "C", "D", "E", "F", "G", "H", "I", "J", "K", "L", "M",
            "N", "O", "P", "Q", "R", "S", "T", "U", "V", "W", "X", "Y", "Z" >>
Lowers == << "a", "b", "c", "d", "e", "f", "g", "h", "i", "j", "k", "l", "m",
             "n", "o", "p", "q", "r", "s", "t", "u", "v", "w", "x", "y", "z" >>

LowerChar(c) ==
    IF \E i \in 1..Len(Upper) : Upper[i] = c
    THEN Lowers[CHOOSE i \in 1..Len(Upper) : Upper[i] = c]
    ELSE c

\* str.lower()
Lower(s) == [i \in 1..Len(s) |-> LowerChar(s[i])]

\* sub in s
Contains(sub, s) ==
    \E i \in 0..(Len(s) - Len(sub)) : SubSeq(s, i + 1, i + Len(sub)) = sub

\* s[:n]
Take(s, n) == SubSeq(s, 1, IF Len(s) < n THEN Len(s) ELSE n)

Digits == << "0", "1", "2", "3", "4", "5", "6", "7", "8", "9" >>

RECURSIVE IntToStr(_)
\* f"{n}" of a non-negative integer
IntToStr(n) ==
    IF n < 10 THEN << Digits[n + 1] >>
    ELSE IntToStr(n \div 10) \o << Digits[(n % 10) + 1] >>

RECURSIVE ZeroPad(_, _)
\* a number field of strftime: at least w digits, zero filled
ZeroPad(s, w) == IF Len(s) >= w THEN s ELSE ZeroPad(<< "0" >> \o s, w)

StrAlreadyExists ==
    << "a", "l", "r", "e", "a", "d", "y", " ", "e", "x", "i", "s", "t", "s" >>
StrDuplicate == << "d", "u", "p", "l", "i", "c", "a", "t", "e" >>
StrHTTP == << "H", "T", "T", "P", " " >>
StrColon == << ":", " " >>

(***************************** calendar **********************************)
IsLeap(y) == (y % 4 = 0 /\ y % 100 # 0) \/ y % 400 = 0

DaysInMonth(y, m) ==
    IF m = 2 THEN (IF IsLeap(y) THEN 29 ELSE 28)
    ELSE IF m \in {4, 6, 9, 11} THEN 30 ELSE 31

\* the calendar day after d: the clock passing one midnight
NextDay(d) ==
    IF d.d < DaysInMonth(d.y, d.m) THEN [d EXCEPT !.d = d.d + 1]
    ELSE IF d.m < 12 THEN [y |-> d.y, m |-> d.m + 1, d |-> 1]
    ELSE [y |-> d.y + 1, m |-> 1, d |-> 1]

\* d - timedelta(days=1)
PrevDay(d) ==
    IF d.d > 1 THEN [d EXCEPT !.d = d.d - 1]
    ELSE IF d.m > 1
         THEN [y |-> d.y, m |-> d.m - 1, d |-> DaysInMonth(d.y, d.m - 1)]
         ELSE [y |-> d.y - 1, m |-> 12, d |-> 31]

RECURSIVE MinusDays(_, _)
\* d - timedelta(days=n)
MinusDays(d, n) == IF n = 0 THEN d ELSE MinusDays(PrevDay(d), n - 1)

\* strftime("%Y-%m-%d")
StrfDate(d) ==
    ZeroPad(IntToStr(d.y), 4) \o << "-" >> \o ZeroPad(IntToStr(d.m), 2)
        \o << "-" >> \o ZeroPad(IntToStr(d.d), 2)

\* The day on which a run may start: the last of a year, so that a midnight
\* passing changes day, month and year.
StartDates == { [y |-> 2024, m |-> 12, d |-> 31] }

(***************************** the script's data *************************)
TokA == << "t", "k", "A" >>
TokB == << "t", "o", "k", "B" >>

Codes ==
    << "CNC-001", "CNC-002", "INJ-001", "INJ-002",
       "PRESS-001", "WELD-001", "PACK-001", "GRIND-001" >>

\* users (lines 81-90): role of each record
users ==
    << "SUPERVISOR", "SUPERVISOR", "OPERATOR", "OPERATOR",
       "OPERATOR", "OPERATOR", "OPERATOR", "OPERATOR" >>

\* machines (lines 102-111): machine_code of each record
machines == Codes

\* plans (lines 143-162): << code, fallback id, shift_id, target, date >>
PlanRows ==
    << << "CNC-001", 1, 1, 500, "today" >>,
       << "CNC-002", 2, 1, 300, "today" >>,
       << "INJ-001", 3, 1, 1000, "today" >>,
       << "INJ-002", 4, 1, 800, "today" >>,
       << "PRESS-001", 5, 1, 600, "today" >>,
       << "WELD-001", 6, 1, 200, "today" >>,
       << "PACK-001", 7, 1, 400, "today" >>,
       << "CNC-001", 1, 2, 450, "today" >>,
       << "INJ-001", 3, 2, 750, "today" >>,
       << "CNC-001", 1, 1, 500, "yesterday" >>,
       << "CNC-002", 2, 1, 300, "yesterday" >>,
       << "INJ-001", 3, 1, 1000, "yesterday" >>,
       << "CNC-001", 1, 1, 500, "two_days_ago" >>,
       << "PRESS-001", 5, 1, 600, "two_days_ago" >> >>

\* production_logs (lines 198-247): << plan index, code, fallback id, produced >>
LogRows ==
    << << 0, "CNC-001", 1, 120 >>, << 0, "CNC-001", 1, 110 >>,
       << 0, "CNC-001", 1, 90 >>,
       << 1, "CNC-002", 2, 95 >>, << 1, "CNC-002", 2, 85 >>,
       << 2, "INJ-001", 3, 200 >>, << 2, "INJ-001", 3, 220 >>,
       << 2, "INJ-001", 3, 230 >>,
       << 3, "INJ-002", 4, 180 >>, << 3, "INJ-002", 4, 170 >>,
       << 3, "INJ-002", 4, 170 >>,
       << 4, "PRESS-001", 5, 150 >>, << 4, "PRESS-001", 5, 140 >>,
       << 4, "PRESS-001", 5, 110 >>,
       << 5, "WELD-001", 6, 60 >>, << 5, "WELD-001", 6, 60 >>,
       << 6, "PACK-001", 7, 100 >>, << 6, "PACK-001", 7, 95 >>,
       << 6, "PACK-001", 7, 85 >>,
       << 9, "CNC-001", 1, 250 >>, << 9, "CNC-001", 1, 240 >>,
       << 10, "CNC-002", 2, 295 >>,
       << 11, "INJ-001", 3, 500 >>, << 11, "INJ-001", 3, 480 >>,
       << 12, "CNC-001", 1, 260 >>, << 12, "CNC-001", 1, 250 >>,
       << 13, "PRESS-001", 5, 300 >>, << 13, "PRESS-001", 5, 280 >> >>

\* downtime_events (lines 265-297): << code, fallback id, category, resolved >>
DowntimeRows ==
    << << "GRIND-001", 8, "MAINTENANCE", FALSE >>,
       << "CNC-002", 2, "BREAKDOWN", TRUE >>,
       << "INJ-002", 4, "MATERIAL", TRUE >>,
       << "WELD-001", 6, "QUALITY", TRUE >> >>

\* range(7), range(9, 14) of the status step; body_text[:200]
TodayStop == 7
PastStart == 9
PastStop == 14
ErrorTextLimit == 200

(***************************** state *************************************)
VARIABLES
    pc,             \* the section of the script that runs next
    idx,            \* the index of the next item of the running loop
    exitcode,       \* the process's exit status; -1 while it runs
    clock,          \* the calendar day datetime.now() last reported
    TOKEN, health, login_resp, resp, machines_resp, machine_map,
    today, yesterday, two_days_ago, plan_ids, success_count, fail_count,
    sent,           \* every request issued, in order, with the loop index
    console,        \* the bag of lines printed
    line,           \* the line printed last
    faults,         \* what the environment has spent of MaxFaults
    existed,        \* "already exists" answers met in the running loop
    plan_resps      \* the answers to the plan creations, in order

pyvars ==
    << TOKEN, health, login_resp, resp, machines_resp, machine_map,
       today, yesterday, two_days_ago, plan_ids, success_count, fail_count >>
envvars == << clock, faults, existed, plan_resps >>
vars == << pc, idx, exitcode, sent, console, line, pyvars, envvars >>

(***************************** api() *************************************)
\* What the service does with one request.
Ok(j) == [kind |-> "ok", json |-> j]
HttpErr(code, body) == [kind |-> "HTTPError", code |-> code, body |-> body]
\* urlopen raising URLError, json.loads raising JSONDecodeError
NetFail == { [kind |-> "URLError"], [kind |-> "JSONDecodeError"] }

\* api() catches HTTPError only (line 36): every other exception leaves it.
Raises(o) == o.kind # "ok" /\ o.kind # "HTTPError"

\* f"HTTP {e.code}: {body_text[:200]}"
HttpText(o) ==
    StrHTTP \o IntToStr(o.code) \o StrColon \o Take(o.body, ErrorTextLimit)

\* the value api() returns (lines 33-38)
api(o) ==
    IF o.kind = "HTTPError"
    THEN JDict([success |-> JBool(FALSE), error |-> JStr(HttpText(o))])
    ELSE o.json

\* a variant of the headers that never carries the token (C9 rejects it)
HeadersNoAuth(token) == [ContentType |-> "application/json"]

\* headers (lines 29-31)
Headers(token) ==
    IF Truthy(token)
    THEN [ContentType |-> "application/json", Authorization |-> token]
    ELSE [ContentType |-> "application/json"]

\* the request api() builds (lines 27-32); arg is the {pid} of a plan path
Request(method, path, arg, data, token) ==
    [method |-> method, path |-> path, arg |-> arg,
     data |-> IF Truthy(data) THEN data ELSE JNull,
     headers |-> Headers(token)]

Send(method, path, arg, data, token, i) ==
    sent' = Append(sent,
                   [req |-> Request(method, path, arg, data, token), item |-> i])

(***************************** console ***********************************)
Line(level, what) == [level |-> level, what |-> what]

RECURSIVE AddLines(_, _)
AddLines(bag, ls) ==
    IF ls = << >> THEN bag
    ELSE AddLines(bag (+) SetToBag({Head(ls)}), Tail(ls))

\* print: header(), ok(), fail()
Emit(ls) ==
    /\ console' = AddLines(console, ls)
    /\ line' = ls[Len(ls)]

Silent == UNCHANGED << console, line >>

\* sys.exit(1)
Exit1 == pc' = "exited" /\ exitcode' = 1 /\ idx' = idx
\* an exception nothing catches: traceback, exit status 1
Crash == pc' = "crashed" /\ exitcode' = 1 /\ idx' = idx
Goto(p, i) == pc' = p /\ idx' = i /\ exitcode' = exitcode

(***************************** environment *******************************)
\* The answers open to the service: the lasting ones while MaxFaults allows.
Answers(free, lasting) ==
    free \cup (IF faults < MaxFaults THEN lasting ELSE {})

Spend(o, lasting) == faults' = faults + (IF o \in lasting THEN 1 ELSE 0)

Init ==
    /\ pc = "health" /\ idx = 0 /\ exitcode = -1
    /\ clock \in StartDates
    /\ TOKEN = JStr(<< >>)
    /\ health = Unset /\ login_resp = Unset /\ resp = Unset
    /\ machines_resp = Unset /\ machine_map = << >>
    /\ today = << >> /\ yesterday = << >> /\ two_days_ago = << >>
    /\ plan_ids = << >>
    /\ success_count = 0 /\ fail_count = 0
    /\ sent = << >> /\ console = EmptyBag /\ line = Line("none", "none")
    /\ faults = 0 /\ existed = 0 /\ plan_resps = << >>

(***************************** 0. health check ***************************)
BodyDown == << "d", "o", "w", "n" >>

HealthAnswers ==
    NetFail
    \cup { HttpErr(503, BodyDown),
           Ok(JDict([success |-> JBool(TRUE), service |-> JStr(<< "g", "w" >>)])),
           Ok(JDict([success |-> JBool(FALSE)])),
           Ok(EmptyDict), Ok(JList(<< >>)) }

\* a variant that accepts any answer naming success, whatever its value
\* (C2 rejects it)
HealthPassedIfAnswered(h) == "success" \in DOMAIN h.v

\* health.get("success") (line 57)
HealthPassed(h) == Truthy(Get(h, "success", JNull))

\* lines 54-64
Health ==
    /\ pc = "health"
    /\ \E o \in HealthAnswers :
        /\ Send("GET", "/api/health", JNull, JNull, JNull, 0)
        /\ IF Raises(o)
           THEN /\ health' = health
                /\ Emit(<< Line("header", "0"), Line("fail", "Cannot reach API") >>)
                /\ Exit1
           ELSE /\ health' = api(o)
                /\ IF ~IsDict(api(o))
                   THEN /\ Emit(<< Line("header", "0"),
                                   Line("fail", "Cannot reach API") >>)
                        /\ Exit1
                   ELSE IF HealthPassed(api(o))
                   THEN /\ Emit(<< Line("header", "0"),
                                   Line("ok", "API is healthy") >>)
                        /\ Goto("login", 0)
                   ELSE /\ Emit(<< Line("header", "0"),
                                   Line("fail", "API health check failed") >>)
                        /\ Exit1
    /\ UNCHANGED << TOKEN, login_resp, resp, machines_resp, machine_map, today,
                    yesterday, two_days_ago, plan_ids, success_count,
                    fail_count, envvars >>

(***************************** 1. login **********************************)
BodyDenied == << "d", "e", "n", "i", "e", "d" >>

LoginAnswers ==
    NetFail
    \cup { HttpErr(401, BodyDenied), Ok(JList(<< >>)),
           Ok(JDict([success |-> JBool(TRUE)])),
           Ok(JDict([success |-> JBool(TRUE), token |-> JNull])),
           Ok(JDict([success |-> JBool(TRUE), token |-> JStr(<< >>)])),
           Ok(JDict([success |-> JBool(TRUE), token |-> JStr(TokA)])),
           Ok(JDict([success |-> JBool(TRUE), token |-> JStr(TokB)])),
           Ok(JDict([success |-> JBool(TRUE), token |-> JInt(7)])) }

Credentials == JDict([username |-> "admin", password |-> "admin123"])

\* len(x) raises TypeError on a number, a boolean or None
HasLen(j) == j.t \in {"str", "list", "dict"}

\* a variant that accepts an empty token (C1 rejects it)
TokenMissingIfNull(r) == Get(r, "token", JNull).t = "null"

\* not login_resp.get("token") (line 71)
TokenMissing(r) == ~Truthy(Get(r, "token", JNull))

\* lines 69-75
Login ==
    /\ pc = "login"
    /\ \E o \in LoginAnswers :
        /\ Send("POST", "/api/v1/auth/login", JNull, Credentials, JNull, 0)
        /\ IF Raises(o)
           THEN /\ UNCHANGED << login_resp, TOKEN >>
                /\ Emit(<< Line("header", "1") >>)
                /\ Crash
           ELSE /\ login_resp' = api(o)
                /\ IF ~IsDict(api(o))
                   THEN /\ TOKEN' = TOKEN
                        /\ Emit(<< Line("header", "1") >>)
                        /\ Crash
                   ELSE IF TokenMissing(api(o))
                   THEN /\ TOKEN' = TOKEN
                        /\ Emit(<< Line("header", "1"),
                                   Line("fail", "Login failed") >>)
                        /\ Exit1
                   ELSE /\ TOKEN' = api(o).v["token"]
                        /\ IF HasLen(api(o).v["token"])
                           THEN /\ Emit(<< Line("header", "1"),
                                           Line("ok", "Logged in as admin") >>)
                                /\ Goto("users", 0)
                           ELSE /\ Emit(<< Line("header", "1") >>)
                                /\ Crash
    /\ UNCHANGED << health, resp, machines_resp, machine_map, today, yesterday,
                    two_days_ago, plan_ids, success_count, fail_count, envvars >>

(***************************** 2./3. users, machines **********************)
BodyExists == << "i", "t", " " >> \o StrAlreadyExists
BodyExistsCaps ==
    << "A", "l", "r", "e", "a", "d", "y", " ", "E", "x", "i", "s", "t", "s" >>
BodyDuplicate ==
    << "D", "u", "p", "l", "i", "c", "a", "t", "e", " ", "k", "e", "y" >>
BodyInvalid == << "i", "n", "v", "a", "l", "i", "d" >>

Created == Ok(JDict([success |-> JBool(TRUE)]))
\* the answers that say the record is already there
ExistsAnswers ==
    { HttpErr(409, BodyExists), HttpErr(409, BodyExistsCaps),
      HttpErr(409, BodyDuplicate) }
CreateFree == { Created, HttpErr(409, BodyExists) }
CreateLasting ==
    { HttpErr(409, BodyExistsCaps), HttpErr(409, BodyDuplicate),
      HttpErr(400, BodyInvalid) }
CreateFatal ==
    NetFail \cup { Ok(JList(<< >>)),
                   Ok(JDict([success |-> JBool(FALSE), error |-> JNull])) }

\* the header a section prints before its first request
Hdr(n) == IF idx = 0 THEN << Line("header", n) >> ELSE << >>
EmitOpt(ls) == IF ls = << >> THEN Silent ELSE Emit(ls)

\* the loop's next position: the next item, or the section after the last
Advance(here, n, after, first) ==
    IF idx + 1 < n THEN Goto(here, idx + 1) ELSE Goto(after, first)

Tally(o) ==
    existed' = (IF idx = 0 THEN 0 ELSE existed)
                   + (IF o \in ExistsAnswers THEN 1 ELSE 0)

UserRecord(i) == JDict([n |-> i + 1, role |-> users[i + 1]])

\* "already exists" in resp.get("error", "") with something that is no string
UserCheckRaises(r) ==
    /\ ~Truthy(Get(r, "success", JNull))
    /\ Get(r, "error", JStr(<< >>)).t \notin {"str", "list", "dict"}

\* line 93
UserAccepted(r) ==
    \/ Truthy(Get(r, "success", JNull))
    \/ /\ Get(r, "error", JStr(<< >>)).t = "str"
       /\ Contains(StrAlreadyExists, Get(r, "error", JStr(<< >>)).v)

\* lines 80-96, one user
CreateUser ==
    /\ pc = "users"
    /\ \E o \in Answers(CreateFree \cup CreateFatal, CreateLasting) :
        /\ Send("POST", "/api/v1/auth/register", JNull, UserRecord(idx),
                TOKEN, idx)
        /\ Spend(o, CreateLasting)
        /\ Tally(o)
        /\ IF Raises(o)
           THEN resp' = resp /\ EmitOpt(Hdr("2")) /\ Crash
           ELSE /\ resp' = api(o)
                /\ IF ~IsDict(api(o)) \/ UserCheckRaises(api(o))
                   THEN EmitOpt(Hdr("2")) /\ Crash
                   ELSE /\ Advance("users", Len(users), "machines", 0)
                        /\ IF UserAccepted(api(o))
                           THEN Emit(Hdr("2") \o << Line("ok", "Created user") >>)
                           ELSE Emit(Hdr("2") \o << Line("fail", "user") >>)
    /\ UNCHANGED << TOKEN, health, login_resp, machines_resp, machine_map,
                    today, yesterday, two_days_ago, plan_ids, success_count,
                    fail_count, clock, plan_resps >>

MachineRecord(i) ==
    JDict([machine_code |-> machines[i + 1],
           status |-> IF machines[i + 1] = "GRIND-001"
                      THEN "MAINTENANCE" ELSE "ACTIVE"])

\* resp.get("error", "").lower() of something that is no string
MachineCheckRaises(r) ==
    /\ ~Truthy(Get(r, "success", JNull))
    /\ Get(r, "error", JStr(<< >>)).t # "str"

\* line 114
MachineAccepted(r) ==
    \/ Truthy(Get(r, "success", JNull))
    \/ /\ Get(r, "error", JStr(<< >>)).t = "str"
       /\ \/ Contains(StrAlreadyExists, Lower(Get(r, "error", JStr(<< >>)).v))
          \/ Contains(StrDuplicate, Lower(Get(r, "error", JStr(<< >>)).v))

\* lines 101-117, one machine
CreateMachine ==
    /\ pc = "machines"
    /\ \E o \in Answers(CreateFree \cup CreateFatal, CreateLasting) :
        /\ Send("POST", "/api/v1/machines", JNull, MachineRecord(idx),
                TOKEN, idx)
        /\ Spend(o, CreateLasting)
        /\ Tally(o)
        /\ IF Raises(o)
           THEN resp' = resp /\ EmitOpt(Hdr("3")) /\ Crash
           ELSE /\ resp' = api(o)
                /\ IF ~IsDict(api(o)) \/ MachineCheckRaises(api(o))
                   THEN EmitOpt(Hdr("3")) /\ Crash
                   ELSE /\ Advance("machines", Len(machines), "shifts", 0)
                        /\ IF MachineAccepted(api(o))
                           THEN Emit(Hdr("3")
                                     \o << Line("ok", "Created machine") >>)
                           ELSE Emit(Hdr("3") \o << Line("fail", "machine") >>)
    /\ UNCHANGED << TOKEN, health, login_resp, machines_resp, machine_map,
                    today, yesterday, two_days_ago, plan_ids, success_count,
                    fail_count, clock, plan_resps >>

(***************************** 4. shifts *********************************)
Shift(name) == JDict([shift_name |-> JStr(name)])
ShiftList ==
    JList(<< Shift(<< "A", "M" >>), Shift(<< "P", "M" >>) >>)

ShiftsFree ==
    { Ok(JDict([success |-> JBool(TRUE), shifts |-> ShiftList])),
      Ok(JDict([success |-> JBool(TRUE)])),
      HttpErr(500, BodyDown) }
ShiftsFatal ==
    NetFail
    \cup { Ok(JList(<< >>)),
           Ok(JDict([success |-> JBool(TRUE), shifts |-> JNull])),
           Ok(JDict([success |-> JBool(TRUE),
                     shifts |-> JList(<< JDict([shift_id |-> JInt(1)]) >>)])) }

\* len(shifts) and s['shift_name'] for s in shifts (line 125)
ShiftsRaise(r) ==
    LET s == Get(r, "shifts", JList(<< >>))
    IN  \/ s.t # "list"
        \/ \E k \in 1..Len(s.v) :
              \/ ~IsDict(s.v[k])
              \/ "shift_name" \notin DOMAIN s.v[k].v
              \/ s.v[k].v["shift_name"].t # "str"

\* lines 122-125
VerifyShifts ==
    /\ pc = "shifts"
    /\ \E o \in ShiftsFree \cup ShiftsFatal :
        /\ Send("GET", "/api/v1/shifts", JNull, JNull, TOKEN, 0)
        /\ IF Raises(o) \/ ~IsDict(api(o)) \/ ShiftsRaise(api(o))
           THEN Emit(<< Line("header", "4") >>) /\ Crash
           ELSE /\ Emit(<< Line("header", "4"), Line("ok", "Shifts available") >>)
                /\ Goto("machine_list", 0)
    /\ existed' = 0
    /\ UNCHANGED << pyvars, clock, faults, plan_resps >>

(***************************** 5. machine list ***************************)
\* The list a service that holds all eight machines reports; the service
\* numbers them on its own, not as the script's fallbacks do.
Listed(k) == JDict([machine_code |-> Codes[k], machine_id |-> JInt(10 + k)])
Relisted(k) == JDict([machine_code |-> Codes[k], machine_id |-> JInt(20 + k)])
FullList == [k \in 1..Len(Codes) |-> Listed(k)]

\* The list without the machines `absent`, and with machine `dup` (0: none)
\* listed a second time under another identifier.
ListWith(absent, dup) ==
    SelectSeq(FullList, LAMBDA e : e.v["machine_code"] \notin absent)
        \o (IF dup = 0 THEN << >> ELSE << Relisted(dup) >>)

ListCost(absent, dup) == Cardinality(absent) + (IF dup = 0 THEN 0 ELSE 1)

CodeSet == { Codes[k] : k \in 1..Len(Codes) }

MachineListFatal ==
    NetFail
    \cup { Ok(JList(<< >>)),
           Ok(JDict([success |-> JBool(TRUE), machines |-> JNull])),
           Ok(JDict([success |-> JBool(TRUE),
                     machines |-> JList(<< JDict([machine_code |-> "CNC-001"])
                                        >>)])) }

\* for m in ...: m["machine_code"], m["machine_id"] (lines 135-136)
MachineLoopRaises(r) ==
    LET l == Get(r, "machines", JList(<< >>))
    IN  \/ l.t # "list"
        \/ \E k \in 1..Len(l.v) :
              \/ ~IsDict(l.v[k])
              \/ "machine_code" \notin DOMAIN l.v[k].v
              \/ "machine_id" \notin DOMAIN l.v[k].v

\* machine_map after the loop of lines 134-136: a later entry overwrites
MapOf(r) ==
    LET l == Get(r, "machines", JList(<< >>)).v
    IN  [c \in { l[k].v["machine_code"] : k \in 1..Len(l) } |->
            l[CHOOSE k \in 1..Len(l) :
                /\ l[k].v["machine_code"] = c
                /\ \A j \in 1..Len(l) : l[j].v["machine_code"] = c => j <= k
              ].v["machine_id"]]

\* what follows the request of line 133, whatever it returned
MachinesRead(o) ==
    IF Raises(o)
    THEN /\ UNCHANGED << machines_resp, machine_map >>
         /\ Emit(<< Line("header", "5") >>) /\ Crash
    ELSE /\ machines_resp' = api(o)
         /\ Emit(<< Line("header", "5") >>)
         /\ IF ~IsDict(api(o)) \/ MachineLoopRaises(api(o))
            THEN machine_map' = machine_map /\ Crash
            ELSE machine_map' = MapOf(api(o)) /\ Goto("today", 0)

\* lines 130-136
ListMachines ==
    /\ pc = "machine_list"
    /\ Send("GET", "/api/v1/machines", JNull, JNull, TOKEN, 0)
    /\ \/ \E o \in MachineListFatal : MachinesRead(o) /\ faults' = faults
       \/ /\ faults < MaxFaults
          /\ MachinesRead(HttpErr(500, BodyDown))
          /\ faults' = faults + 1
       \/ \E absent \in SUBSET CodeSet, dup \in 0..Len(Codes) :
            /\ faults + ListCost(absent, dup) <= MaxFaults
            /\ MachinesRead(Ok(JDict([success |-> JBool(TRUE),
                                      machines |-> JList(ListWith(absent, dup))])))
            /\ faults' = faults + ListCost(absent, dup)
    /\ UNCHANGED << TOKEN, health, login_resp, resp, today, yesterday,
                    two_days_ago, plan_ids, success_count, fail_count,
                    clock, existed, plan_resps >>

(***************************** dates *************************************)
RECURSIVE PlusDays(_, _)
PlusDays(d, n) == IF n = 0 THEN d ELSE PlusDays(NextDay(d), n - 1)

\* datetime.now(): the day it is at this call, which may be a later day
\* than at the call before
Now(n) == clock' = PlusDays(clock, n) /\ faults' = faults + n

\* line 138
ComputeToday ==
    /\ pc = "today"
    /\ \E n \in 0..(MaxFaults - faults) :
        Now(n) /\ today' = StrfDate(PlusDays(clock, n))
    /\ Goto("yesterday", 0)
    /\ UNCHANGED << TOKEN, health, login_resp, resp, machines_resp, machine_map,
                    yesterday, two_days_ago, plan_ids, success_count,
                    fail_count, sent, console, line, existed,
                    plan_resps >>

\* line 139
ComputeYesterday ==
    /\ pc = "yesterday"
    /\ \E n \in 0..(MaxFaults - faults) :
        Now(n) /\ yesterday' = StrfDate(MinusDays(PlusDays(clock, n), 1))
    /\ Goto("two_days_ago", 0)
    /\ UNCHANGED << TOKEN, health, login_resp, resp, machines_resp, machine_map,
                    today, two_days_ago, plan_ids, success_count,
                    fail_count, sent, console, line, existed,
                    plan_resps >>

\* line 140
ComputeTwoDaysAgo ==
    /\ pc = "two_days_ago"
    /\ \E n \in 0..(MaxFaults - faults) :
        Now(n) /\ two_days_ago' = StrfDate(MinusDays(PlusDays(clock, n), 2))
    /\ Goto("plans", 0)
    /\ UNCHANGED << TOKEN, health, login_resp, resp, machines_resp, machine_map,
                    today, yesterday, plan_ids, success_count,
                    fail_count, sent, console, line, existed,
                    plan_resps >>

(***************************** 5. plans **********************************)
\* a variant that never consults machine_map (C10 rejects it)
MapGetFallbackOnly(code, fallback) == JInt(fallback)

\* machine_map.get(code, fallback)
MapGet(code, fallback) ==
    IF code \in DOMAIN machine_map THEN machine_map[code] ELSE JInt(fallback)

DateNamed(name) ==
    CASE name = "today" -> today
      [] name = "yesterday" -> yesterday
      [] name = "two_days_ago" -> two_days_ago

\* plans (lines 143-162), built once the map and the dates are known
plans ==
    [k \in 1..Len(PlanRows) |->
        JDict([machine_id |-> MapGet(PlanRows[k][1], PlanRows[k][2]),
               shift_id |-> PlanRows[k][3],
               target_quantity |-> PlanRows[k][4],
               plan_date |-> DateNamed(PlanRows[k][5])])]

\* The identifier the service gives the plan of index i.
Planned(i) ==
    Ok(JDict([success |-> JBool(TRUE),
              plan |-> JDict([plan_id |-> JInt(101 + i)])]))
PlanLasting ==
    { HttpErr(400, BodyInvalid), Ok(JDict([success |-> JBool(TRUE)])) }
PlanFatal ==
    NetFail \cup { Ok(JList(<< >>)),
                   Ok(JDict([success |-> JBool(TRUE), plan |-> JNull])) }

\* resp.get("plan", {}).get(...) of a plan that is no object
PlanRaises(r) ==
    Truthy(Get(r, "success", JNull)) /\ ~IsDict(Get(r, "plan", EmptyDict))

\* line 168
PlanIdOf(r, i) == Get(Get(r, "plan", EmptyDict), "plan_id", JInt(i + 1))

\* plan_ids[i] = plan_id
Put(f, k, x) == [j \in DOMAIN f \cup {k} |-> IF j = k THEN x ELSE f[j]]

\* lines 164-172, one plan
CreatePlan ==
    /\ pc = "plans"
    /\ \E o \in Answers({Planned(idx)} \cup PlanFatal, PlanLasting) :
        /\ Send("POST", "/api/v1/plans", JNull, plans[idx + 1], TOKEN, idx)
        /\ Spend(o, PlanLasting)
        /\ IF Raises(o)
           THEN UNCHANGED << resp, plan_ids, plan_resps >> /\ Silent /\ Crash
           ELSE /\ resp' = api(o)
                /\ plan_resps' = Append(plan_resps, api(o))
                /\ IF ~IsDict(api(o)) \/ PlanRaises(api(o))
                   THEN plan_ids' = plan_ids /\ Silent /\ Crash
                   ELSE /\ Advance("plans", Len(PlanRows), "status_today", 0)
                        /\ IF Truthy(Get(api(o), "success", JNull))
                           THEN /\ plan_ids' =
                                      Put(plan_ids, idx, PlanIdOf(api(o), idx))
                                /\ Emit(<< Line("ok", "Plan") >>)
                           ELSE /\ plan_ids' = plan_ids
                                /\ Emit(<< Line("fail", "Plan") >>)
    /\ UNCHANGED << TOKEN, health, login_resp, machines_resp, machine_map,
                    today, yesterday, two_days_ago, success_count, fail_count,
                    clock, existed >>

(***************************** 6. plan statuses **************************)
\* plan_ids.get(i)
PlanIdsGet(i) == IF i \in DOMAIN plan_ids THEN plan_ids[i] ELSE JNull

PatchAnswers == { Created, HttpErr(404, BodyInvalid) } \cup NetFail

\* a variant that reads the identifier of the next index (C5 rejects it)
PidOfNext(i) == PlanIdsGet(i + 1)

\* pid = plan_ids.get(i) (lines 181, 188)
PidOf(i) == PlanIdsGet(i)

\* one turn of a status loop: a PATCH when the plan has an identifier, and
\* the closing line after the last turn
Patch(status, stop, here, hdr, after, first, msg) ==
    IF Truthy(PidOf(idx))
    THEN \E o \in PatchAnswers :
            /\ Send("PATCH", "/api/v1/plans/", PidOf(idx),
                    JDict([status |-> status]), TOKEN, idx)
            /\ IF Raises(o)
               THEN EmitOpt(hdr) /\ Crash
               ELSE IF idx + 1 < stop
               THEN EmitOpt(hdr) /\ Goto(here, idx + 1)
               ELSE Emit(hdr \o << Line("ok", msg) >>) /\ Goto(after, first)
    ELSE /\ sent' = sent
         /\ IF idx + 1 < stop
            THEN EmitOpt(hdr) /\ Goto(here, idx + 1)
            ELSE Emit(hdr \o << Line("ok", msg) >>) /\ Goto(after, first)

\* lines 177-184
PatchToday ==
    /\ pc = "status_today"
    /\ Patch("IN_PROGRESS", TodayStop, "status_today", Hdr("6"),
             "status_past", PastStart, "Plans 1-7 IN_PROGRESS")
    /\ UNCHANGED << pyvars, envvars >>

\* lines 187-191
PatchPast ==
    /\ pc = "status_past"
    /\ Patch("COMPLETED", PastStop, "status_past", << >>,
             "production", 0, "Plans 10-14 COMPLETED")
    /\ UNCHANGED << pyvars, envvars >>

(***************************** 7. production logs ************************)
\* production_logs (lines 198-247), built after the status step
\* a variant that guesses index + 1 for a plan without identifier (C11
\* rejects it)
production_logs_guessed ==
    [k \in 1..Len(LogRows) |->
        JDict([plan_id |-> IF LogRows[k][1] \in DOMAIN plan_ids
                           THEN plan_ids[LogRows[k][1]]
                           ELSE JInt(LogRows[k][1] + 1),
               machine_id |-> MapGet(LogRows[k][2], LogRows[k][3]),
               shift_id |-> 1,
               quantity_produced |-> LogRows[k][4]])]

production_logs ==
    [k \in 1..Len(LogRows) |->
        JDict([plan_id |-> PlanIdsGet(LogRows[k][1]),
               machine_id |-> MapGet(LogRows[k][2], LogRows[k][3]),
               shift_id |-> 1,
               quantity_produced |-> LogRows[k][4]])]

RecordFree == { Created }
RecordLasting == { HttpErr(400, BodyInvalid) }
RecordFatal == NetFail

\* lines 196-257, one log
LogProduction ==
    /\ pc = "production"
    /\ \E o \in Answers(RecordFree \cup RecordFatal, RecordLasting) :
        /\ Send("POST", "/api/v1/production-logs", JNull,
                production_logs[idx + 1], TOKEN, idx)
        /\ Spend(o, RecordLasting)
        /\ IF Raises(o)
           THEN /\ UNCHANGED << resp, success_count, fail_count >>
                /\ EmitOpt(Hdr("7")) /\ Crash
           ELSE /\ resp' = api(o)
                /\ IF ~IsDict(api(o))
                   THEN /\ UNCHANGED << success_count, fail_count >>
                        /\ EmitOpt(Hdr("7")) /\ Crash
                   ELSE /\ IF Truthy(Get(api(o), "success", JNull))
                           THEN /\ success_count' = success_count + 1
                                /\ fail_count' = fail_count
                           ELSE /\ success_count' = success_count
                                /\ fail_count' = fail_count + 1
                        /\ Advance("production", Len(LogRows), "downtime", 0)
                        /\ IF idx + 1 < Len(LogRows)
                           THEN EmitOpt(Hdr("7"))
                           ELSE Emit(Hdr("7") \o << Line("ok", "Production logs") >>)
    /\ UNCHANGED << TOKEN, health, login_resp, machines_resp, machine_map,
                    today, yesterday, two_days_ago, plan_ids, clock,
                    existed, plan_resps >>

(***************************** 8. downtime *******************************)
\* downtime_events (lines 265-297)
downtime_events ==
    [k \in 1..Len(DowntimeRows) |->
        JDict([machine_id |-> MapGet(DowntimeRows[k][1], DowntimeRows[k][2]),
               category |-> DowntimeRows[k][3],
               resolved |-> DowntimeRows[k][4]])]

\* lines 262-305, one event
LogDowntime ==
    /\ pc = "downtime"
    /\ \E o \in Answers(RecordFree \cup RecordFatal, RecordLasting) :
        /\ Send("POST", "/api/v1/downtime", JNull, downtime_events[idx + 1],
                TOKEN, idx)
        /\ Spend(o, RecordLasting)
        /\ IF Raises(o)
           THEN resp' = resp /\ EmitOpt(Hdr("8")) /\ Crash
           ELSE /\ resp' = api(o)
                /\ IF ~IsDict(api(o))
                   THEN EmitOpt(Hdr("8")) /\ Crash
                   ELSE /\ Advance("downtime", Len(DowntimeRows), "dashboard", 0)
                        /\ IF Truthy(Get(api(o), "success", JNull))
                           THEN Emit(Hdr("8") \o << Line("ok", "Downtime") >>)
                           ELSE Emit(Hdr("8") \o << Line("fail", "Downtime") >>)
    /\ UNCHANGED << TOKEN, health, login_resp, machines_resp, machine_map,
                    today, yesterday, two_days_ago, plan_ids, success_count,
                    fail_count, clock, existed, plan_resps >>

(***************************** 9.-11. verification ***********************)
tailvars ==
    << pyvars, envvars >>

DashboardAnswers ==
    NetFail
    \cup { Ok(JDict([success |-> JBool(TRUE),
                     dashboard |-> JDict([totalMachines |-> JInt(8)])])),
           HttpErr(500, BodyDown),
           Ok(JList(<< >>)),
           Ok(JDict([success |-> JBool(TRUE), dashboard |-> JNull])) }

\* lines 310-325
Dashboard ==
    /\ pc = "dashboard"
    /\ \E o \in DashboardAnswers :
        /\ Send("GET", "/api/v1/dashboard", JNull, JNull, TOKEN, 0)
        /\ IF Raises(o) \/ ~IsDict(api(o))
              \/ ~IsDict(Get(api(o), "dashboard", EmptyDict))
           THEN Emit(<< Line("header", "9") >>) /\ Crash
           ELSE /\ Emit(<< Line("header", "9"), Line("print", "dashboard") >>)
                /\ Goto("reports", 0)
    /\ UNCHANGED tailvars

\* len(x.get(key, [])) of something that has no length
LenRaises(r, key) == ~HasLen(Get(r, key, JList(<< >>)))

ReportFree ==
    { Ok(JDict([success |-> JBool(TRUE), report |-> JList(<< JInt(1) >>)])) }
ReportLasting == { HttpErr(500, BodyDown) }
ReportFatal ==
    NetFail \cup { Ok(JList(<< >>)),
                   Ok(JDict([success |-> JBool(TRUE), report |-> JNull])) }

\* lines 328-333
DailyReport ==
    /\ pc = "reports"
    /\ \E o \in Answers(ReportFree \cup ReportFatal, ReportLasting) :
        /\ Send("GET", "/api/v1/reports/daily", JNull, JNull, TOKEN, 0)
        /\ Spend(o, ReportLasting)
        /\ IF Raises(o) \/ ~IsDict(api(o))
           THEN Emit(<< Line("header", "10") >>) /\ Crash
           ELSE IF \/ Truthy(Get(api(o), "success", JNull))
                   \/ Truthy(Get(api(o), "report", JNull))
           THEN IF LenRaises(api(o), "report")
                THEN Emit(<< Line("header", "10") >>) /\ Crash
                ELSE /\ Emit(<< Line("header", "10"),
                                Line("ok", "Daily report") >>)
                     /\ Goto("downtime_logs", 0)
           ELSE /\ Emit(<< Line("header", "10"), Line("fail", "Daily report") >>)
                /\ Goto("downtime_logs", 0)
    /\ UNCHANGED << pyvars, clock, existed, plan_resps >>

\* the answers to a request for a list under `key`
ListingAnswers(key) ==
    NetFail
    \cup { Ok(JDict([k \in {"success", key} |->
                       IF k = key THEN JList(<< JInt(1) >>) ELSE JBool(TRUE)])),
           HttpErr(500, BodyDown),
           Ok(JList(<< >>)),
           Ok(JDict([k \in {"success", key} |->
                       IF k = key THEN JNull ELSE JBool(TRUE)])) }

\* ok(f"...: {len(x.get(key, []))} ...") after a GET (lines 336-337, 340-341)
Listing(path, key, msg, after) ==
    \E o \in ListingAnswers(key) :
        /\ Send("GET", path, JNull, JNull, TOKEN, 0)
        /\ IF Raises(o) \/ ~IsDict(api(o)) \/ LenRaises(api(o), key)
           THEN Silent /\ Crash
           ELSE Emit(<< Line("ok", msg) >>) /\ Goto(after, 0)

\* lines 336-337
DowntimeLogs ==
    /\ pc = "downtime_logs"
    /\ Listing("/api/v1/downtime", "logs", "Downtime logs", "users_list")
    /\ UNCHANGED tailvars

\* lines 340-341
UsersList ==
    /\ pc = "users_list"
    /\ Listing("/api/v1/auth/users", "users", "Users", "features")
    /\ UNCHANGED tailvars

Flag(id) ==
    JDict([id |-> JStr(id), api |-> JStr(<< "E", "N" >>),
           ui |-> JStr(<< "E", "N" >>)])

FeatureAnswers ==
    NetFail
    \cup { Ok(JDict([success |-> JBool(TRUE),
                     features |-> JList(<< Flag(<< "p" >>) >>)])),
           HttpErr(403, BodyDenied),
           Ok(JList(<< >>)),
           Ok(JDict([success |-> JBool(TRUE), features |-> JNull])),
           Ok(JDict([success |-> JBool(TRUE),
                     features |-> JList(<< JDict([id |-> JStr(<< "p" >>)]) >>)])) }

\* f['id']:12s, f.get('api'):8s, f.get('ui'):8s for f in features (line 348)
FeaturesRaise(r) ==
    LET l == Get(r, "features", JList(<< >>))
    IN  \/ l.t # "list"
        \/ \E k \in 1..Len(l.v) :
              \/ ~IsDict(l.v[k])
              \/ "id" \notin DOMAIN l.v[k].v
              \/ l.v[k].v["id"].t # "str"
              \/ Get(l.v[k], "api", JNull).t # "str"
              \/ Get(l.v[k], "ui", JNull).t # "str"

\* lines 344-356
FeatureFlags ==
    /\ pc = "features"
    /\ \E o \in FeatureAnswers :
        /\ Send("GET", "/api/v1/admin/features", JNull, JNull, TOKEN, 0)
        /\ IF Raises(o) \/ ~IsDict(api(o)) \/ FeaturesRaise(api(o))
           THEN Emit(<< Line("header", "11") >>) /\ Crash
           ELSE /\ Emit(<< Line("header", "11"),
                           Line("print", "SEED DATA COMPLETE") >>)
                /\ pc' = "done" /\ exitcode' = 0 /\ idx' = 0
    /\ UNCHANGED tailvars

Next ==
    \/ Health \/ Login \/ CreateUser \/ CreateMachine \/ VerifyShifts
    \/ ListMachines \/ ComputeToday \/ ComputeYesterday \/ ComputeTwoDaysAgo
    \/ CreatePlan \/ PatchToday \/ PatchPast \/ LogProduction \/ LogDowntime
    \/ Dashboard \/ DailyReport \/ DowntimeLogs \/ UsersList \/ FeatureFlags

Spec == Init /\ [][Next]_vars

(***************************** properties ********************************)
Terminated == pc \in {"exited", "crashed"}
Last == sent[Len(sent)]
HasAuth(r) == "Authorization" \in DOMAIN r.headers
Patches == { k \in 1..Len(sent) : sent[k].req.method = "PATCH" }

\* C1: when the login answer carries no authentication token (absent, null,
\* empty, or no answer at all), the run has ended with a non-zero exit status
\* and the login request is the last request it ever issued.
C1_NoTokenStopsRun ==
    ( /\ Len(sent) >= 2
      /\ ~(IsDict(login_resp) /\ Truthy(Get(login_resp, "token", JNull))) )
        => /\ Terminated
           /\ exitcode = 1
           /\ Len(sent) = 2

\* C1 witness: the login answered with an empty token and the run has exited.
C1_Witness ==
    /\ pc = "exited"
    /\ IsDict(login_resp)
    /\ "token" \in DOMAIN login_resp.v
    /\ login_resp.v["token"].t = "str"
    /\ Len(login_resp.v["token"].v) = 0

\* C2: when the health check got no answer (any exception) or an answer that
\* does not report success, the run has exited with a non-zero status and the
\* health request is the only request it ever issued.
C2_UnhealthyStopsRun ==
    (Len(sent) >= 1 /\ ~(IsDict(health) /\ Truthy(Get(health, "success", JNull))))
        => /\ pc = "exited"
           /\ exitcode = 1
           /\ Len(sent) = 1

\* C2 witness: the service was unreachable (api() raised, health was never
\* bound) and the run has exited.
C2_Witness ==
    /\ pc = "exited"
    /\ Len(sent) = 1
    /\ health.t = "unset"

\* An "already exists" style error: an error text that says "already exists",
\* in whatever letter case.
ExistsStyle(r) ==
    /\ IsDict(r)
    /\ ~Truthy(Get(r, "success", JNull))
    /\ Get(r, "error", JNull).t = "str"
    /\ Contains(StrAlreadyExists, Lower(Get(r, "error", JNull).v))

\* C3: after every user registration and every machine creation whose answer
\* is an "already exists" style error, the line logged for the item is a
\* success line.
C3_ExistsIsSuccess ==
    ( /\ pc # "crashed"
      /\ Len(sent) > 0
      /\ Last.req.method = "POST"
      /\ Last.req.path \in {"/api/v1/auth/register", "/api/v1/machines"}
      /\ ExistsStyle(resp) )
        => line.level = "ok"

\* the plans created, by the date they were authored with
CreatedToday == { i \in DOMAIN plan_ids : PlanRows[i + 1][5] = "today" }
CreatedPast == { i \in DOMAIN plan_ids : PlanRows[i + 1][5] # "today" }
Patched(status) ==
    { sent[k].item : k \in { j \in Patches : sent[j].req.data.v["status"] = status } }

\* C4: once the status step is over, the plans patched IN_PROGRESS are exactly
\* the created plans authored with today's date, and the plans patched
\* COMPLETED are exactly the created plans authored with a past date.
C4_PatchesFollowDates ==
    (pc = "production" /\ idx = 0)
        => /\ Patched("IN_PROGRESS") = CreatedToday
           /\ Patched("COMPLETED") = CreatedPast

\* the answer to the creation of plan i, and whether it carries an identifier
AnswerOf(i) == plan_resps[i + 1]
ReturnedId(r) ==
    /\ IsDict(r)
    /\ IsDict(Get(r, "plan", JNull))
    /\ "plan_id" \in DOMAIN r.v["plan"].v

\* C5 as stated: every PATCH is for a plan index whose creation answer carried
\* an identifier, and targets that identifier.
C5_OnlyReturnedIds ==
    \A k \in Patches :
        /\ ReturnedId(AnswerOf(sent[k].item))
        /\ sent[k].req.arg = AnswerOf(sent[k].item).v["plan"].v["plan_id"]

\* C5 amended: every PATCH is for a plan index whose creation answer reported
\* success, and targets the identifier recorded for that index: the one the
\* answer carried, or index + 1 when the answer carried none.
C5_RecordedIds ==
    \A k \in Patches :
        LET i == sent[k].item
        IN  /\ IsDict(AnswerOf(i))
            /\ Truthy(Get(AnswerOf(i), "success", JNull))
            /\ i \in DOMAIN plan_ids
            /\ sent[k].req.arg = plan_ids[i]
            /\ sent[k].req.arg =
                  IF ReturnedId(AnswerOf(i))
                  THEN AnswerOf(i).v["plan"].v["plan_id"]
                  ELSE JInt(i + 1)

\* C5 witness: the status step is over, one PATCH went to an identifier the
\* service returned and one to the index + 1 of an answer that carried none.
C5_Witness ==
    /\ pc = "production"
    /\ \E k \in Patches : ReturnedId(AnswerOf(sent[k].item))
    /\ \E k \in Patches : ~ReturnedId(AnswerOf(sent[k].item))

\* the days the clock can show during a run
Days == { PlusDays(s, n) : s \in StartDates, n \in 0..MaxFaults }

\* C6: once the three dates are computed, they are one day, the day before
\* it and the day before that, each as YYYY-MM-DD.
C6_DatesOneDayApart ==
    (two_days_ago # << >>)
        => \E d \in Days :
              /\ today = StrfDate(d)
              /\ yesterday = StrfDate(MinusDays(d, 1))
              /\ two_days_ago = StrfDate(MinusDays(d, 2))

\* C7: once a request after the login has been issued, the run does not stop
\* short of the final summary.
C7_NoAbortAfterLogin == Len(sent) > 2 => ~Terminated

\* C8: with every user registered, six machines created and exactly two
\* machines answered "already exists", the machine section reports six
\* machines as created and two as already existing.
C8_SixCreatedTwoExisting ==
    (pc = "shifts" /\ faults = 0 /\ existed = 2)
        => /\ CopiesIn(Line("ok", "Created machine"), console) = 6
           /\ CopiesIn(Line("ok", "Machine already exists"), console) = 2
           /\ CopiesIn(Line("fail", "machine"), console) = 0

\* C9: the health and the login request carry no token; every other request
\* carries the token the login answered with, and TOKEN is that token from
\* the first request after the login on.
C9_BearerToken ==
    /\ \A k \in 1..Len(sent) :
          IF sent[k].req.path \in {"/api/health", "/api/v1/auth/login"}
          THEN ~HasAuth(sent[k].req)
          ELSE /\ HasAuth(sent[k].req)
               /\ sent[k].req.headers["Authorization"] = login_resp.v["token"]
    /\ Len(sent) > 2 => TOKEN = login_resp.v["token"]

\* C9 witness: a run that reached the end with the second token.
C9_Witness ==
    /\ pc = "done"
    /\ TOKEN.v = TokB
    /\ HasAuth(Last.req)

\* the requests that carry a machine_id, with the row each was authored from
MachineReqs ==
    { k \in 1..Len(sent) :
        /\ sent[k].req.method = "POST"
        /\ sent[k].req.path \in
              {"/api/v1/plans", "/api/v1/production-logs", "/api/v1/downtime"} }
RowOf(k) ==
    CASE sent[k].req.path = "/api/v1/plans" ->
            << PlanRows[sent[k].item + 1][1], PlanRows[sent[k].item + 1][2] >>
      [] sent[k].req.path = "/api/v1/production-logs" ->
            << LogRows[sent[k].item + 1][2], LogRows[sent[k].item + 1][3] >>
      [] sent[k].req.path = "/api/v1/downtime" ->
            << DowntimeRows[sent[k].item + 1][1],
               DowntimeRows[sent[k].item + 1][2] >>
SentId(k) == sent[k].req.data.v["machine_id"]
\* the identifiers the machine list read back reports for a code
ListedIds(c) ==
    LET l == IF IsDict(machines_resp)
             THEN Get(machines_resp, "machines", JList(<< >>)).v
             ELSE << >>
    IN  { l[k].v["machine_id"] : k \in { j \in 1..Len(l) : l[j].v["machine_code"] = c } }

\* C10: every plan, production log and downtime record, at the moment it is
\* sent, carries an identifier the machine list reports for its machine code
\* when the list holds the code, the fallback number of the code when it does
\* not, and the identifier every earlier record of the same code was sent with.
C10_MachineIds ==
    LET n == Len(sent)
    IN  n \in MachineReqs =>
          LET c == RowOf(n)[1]
              listed == ListedIds(c)
          IN  /\ listed # {} => SentId(n) \in listed
              /\ listed = {} => SentId(n) = JInt(RowOf(n)[2])
              /\ \A k \in MachineReqs :
                    RowOf(k)[1] = c => SentId(k) = SentId(n)

\* C10 witness: a run that reached the end having sent one record with an
\* identifier from the list and one with a fallback number.
C10_Witness ==
    /\ pc = "done"
    /\ \E k \in MachineReqs : ListedIds(RowOf(k)[1]) # {}
    /\ \E k \in MachineReqs : ListedIds(RowOf(k)[1]) = {}

\* the production-log requests sent so far
LogReqs ==
    { k \in 1..Len(sent) : sent[k].req.path = "/api/v1/production-logs" }

\* C11: no authored production log is ever sent twice; each is sent with the
\* identifier recorded for its plan index, and with a null plan_id when none
\* is recorded; every answered request is tallied as created or as failed;
\* and when the step is over all 28 authored logs were sent, so that
\* created + failed = 28.
C11_OneRequestPerLog ==
    LET reqs == LogReqs
        n == Cardinality(reqs)
        open == IF pc = "crashed" /\ Len(sent) \in reqs THEN 1 ELSE 0
    IN  /\ Cardinality({ sent[k].item : k \in reqs }) = n
        /\ \A k \in reqs :
              LET i == LogRows[sent[k].item + 1][1]
              IN  /\ sent[k].req.method = "POST"
                  /\ sent[k].item \in 0..(Len(LogRows) - 1)
                  /\ sent[k].req.data.v["plan_id"] =
                        IF i \in DOMAIN plan_ids THEN plan_ids[i] ELSE JNull
        /\ success_count + fail_count + open = n
        /\ pc \in {"downtime", "dashboard", "reports", "downtime_logs",
                    "users_list", "features", "done"}
              => /\ n = 28
                 /\ success_count + fail_count = 28

\* C11 witness: the step is over, one log went out with a null plan_id because
\* its plan was not created, and one with the identifier of its plan.
C11_Witness ==
    /\ pc = "downtime" /\ idx = 0
    /\ success_count + fail_count = 28
    /\ \E k \in LogReqs : sent[k].req.data.v["plan_id"] = JNull
    /\ \E k \in LogReqs : sent[k].req.data.v["plan_id"] # JNull

====
